---------------------------- MODULE Spec2Model ----------------------------
(***************************************************************************)
(* Model of the two reaction scripts of te-presence-reslacktor:            *)
(*   src/slackspond.py   legend-driven, bidirectional (add / remove)       *)
(*   src/slacksponder.py fixed weekday table, add-only                     *)
(* Strings are sequences of one-character strings, so that searching,      *)
(* slicing, lower-casing, stripping and splitting are computed as the      *)
(* Python code computes them.                                              *)
(***************************************************************************)
EXTENDS Integers, Sequences, FiniteSets, TLC

VARIABLES
    script,         \* which of the two scripts runs
    pc,             \* position of main()
    token,          \* SLACK_USER_TOKEN is set
    link,           \* args.link
    channel,        \* main: channel
    timestamp,      \* main: timestamp
    message_text,   \* main: message_text (slackspond.py)
    day_emoji_map,  \* main: day_emoji_map (slackspond.py), insertion-ordered
    selection,      \* what the user typed or ticked at the prompt
    days,           \* main: days (slackspond.py), the prompt's return value
    reactions,      \* the batch handed to submit_reactions, in iteration order
    idx,            \* submit_reactions: number of loop iterations started
    calls,          \* reactions_add / reactions_remove calls made, in order
    failed,         \* number of "Failed to add ..." reports written
    exit_code,      \* process exit status, -1 while running
    prompted,       \* "no", "answered" or "aborted": how the prompt ended
    uncaught,       \* the exception that left main uncaught, "" when none
    arg,            \* input of the function under test (function harnesses)
    ret             \* its result (function harnesses)

vars == <<script, pc, token, link, channel, timestamp, message_text,
          day_emoji_map, selection, days, reactions, idx, calls, failed,
          exit_code, prompted, uncaught, arg, ret>>

mainVars == <<script, pc, token, link, channel, timestamp, message_text,
              day_emoji_map, selection, days, reactions, idx, calls, failed,
              exit_code, prompted, uncaught>>

-----------------------------------------------------------------------------
(* Characters and generic string helpers                                   *)

UpperSeq == <<"A","B","C","D","E","F","G","H","I","J","K","L","M",
              "N","O","P","Q","R","S","T","U","V","W","X","Y","Z">>

LowerSeq == <<"a","b","c","d","e","f","g","h","i","j","k","l","m",
              "n","o","p","q","r","s","t","u","v","w","x","y","z">>

Upper == {UpperSeq[i] : i \in 1..Len(UpperSeq)}

Lower == {LowerSeq[i] : i \in 1..Len(LowerSeq)}

Digit == {"0","1","2","3","4","5","6","7","8","9"}

DigitSeq == <<"0","1","2","3","4","5","6","7","8","9">>

\* s[i:i+len(lit)] == lit
StartsWithAt(s, i, lit) ==
    /\ i >= 1
    /\ i + Len(lit) - 1 <= Len(s)
    /\ \A k \in 1..Len(lit) : s[i + k - 1] = lit[k]

\* `lit in s`
Contains(s, lit) == \E i \in 1..Len(s) : StartsWithAt(s, i, lit)

\* end (exclusive) of the maximal run of characters of class starting at i:
\* what a greedy `[class]*` consumes
RunEnd(s, i, class) ==
    CHOOSE j \in i..(Len(s) + 1) :
        /\ \A k \in i..(j - 1) : s[k] \in class
        /\ (j = Len(s) + 1 \/ s[j] \notin class)

Min(S) == CHOOSE x \in S : \A y \in S : x <= y

Max(S) == CHOOSE x \in S : \A y \in S : x >= y

-----------------------------------------------------------------------------
(* parse_slack_url                                                         *)

ArchivesLit == <<"/","a","r","c","h","i","v","e","s","/">>

SlashP == <<"/","p">>

NoMatch == [matched |-> FALSE, group1 |-> <<>>, group2 |-> <<>>]

\* the pattern /archives/([A-Z0-9]+)/p(\d+) tried at position i; both
\* quantifiers are greedy and are followed by a character outside their
\* class (or by nothing), so backtracking never finds a shorter match
MatchArchivesAt(s, i) ==
    LET c0 == i + Len(ArchivesLit)
        c1 == RunEnd(s, c0, Upper \cup Digit)
        d0 == c1 + Len(SlashP)
        d1 == RunEnd(s, d0, Digit)
    IN  IF /\ StartsWithAt(s, i, ArchivesLit)
           /\ c1 > c0
           /\ StartsWithAt(s, c1, SlashP)
           /\ d1 > d0
        THEN [matched |-> TRUE,
              group1 |-> SubSeq(s, c0, c1 - 1),
              group2 |-> SubSeq(s, d0, d1 - 1)]
        ELSE NoMatch

\* re.search: the leftmost position where the pattern matches
SearchArchives(s) ==
    LET hits == {i \in 1..Len(s) : MatchArchivesAt(s, i).matched}
    IN  IF hits = {} THEN NoMatch ELSE MatchArchivesAt(s, Min(hits))

\* raw_ts[:-6]
AllButLast6(s) == IF Len(s) > 6 THEN SubSeq(s, 1, Len(s) - 6) ELSE <<>>

\* mutant of Last6: keeps the last 5 characters
Last6_five(s) == IF Len(s) > 5 THEN SubSeq(s, Len(s) - 4, Len(s)) ELSE s

\* raw_ts[-6:]
Last6(s) == IF Len(s) > 6 THEN SubSeq(s, Len(s) - 5, Len(s)) ELSE s

\* f"{raw_ts[:-6]}.{raw_ts[-6:]}"
FormatTimestamp(raw_ts) == AllButLast6(raw_ts) \o <<".">> \o Last6(raw_ts)

\* parse_slack_url: raised |-> TRUE stands for the ValueError
parse_slack_url(u) ==
    LET match == SearchArchives(u)
    IN  IF ~match.matched
        THEN [raised |-> TRUE, channel_id |-> <<>>, timestamp |-> <<>>]
        ELSE [raised |-> FALSE,
              channel_id |-> match.group1,
              timestamp |-> FormatTimestamp(match.group2)]

-----------------------------------------------------------------------------
(* parse_line_day_emoji, parse_emoji_from_message                          *)

monday == <<"m","o","n","d","a","y">>

tuesday == <<"t","u","e","s","d","a","y">>

wednesday == <<"w","e","d","n","e","s","d","a","y">>

thursday == <<"t","h","u","r","s","d","a","y">>

friday == <<"f","r","i","d","a","y">>

\* the list the loop of parse_line_day_emoji walks, in its order
Weekdays == <<monday, tuesday, wednesday, thursday, friday>>

\* str.lower() on one character (ASCII letters)
LowerChar(c) ==
    IF c \in Upper
    THEN LowerSeq[CHOOSE i \in 1..Len(UpperSeq) : UpperSeq[i] = c]
    ELSE c

\* str.lower()
LowerStr(s) == [i \in 1..Len(s) |-> LowerChar(s[i])]

\* mutant of FirstWeekdayFrom: the weekday that occurs first in the text
FirstWeekdayInText(line_lower, k) ==
    LET pos(w) == Min({i \in 1..Len(line_lower) :
                          StartsWithAt(line_lower, i, Weekdays[w])})
        present == {w \in k..Len(Weekdays) : Contains(line_lower, Weekdays[w])}
    IN  IF present = {} THEN 0
        ELSE CHOOSE w \in present : \A v \in present : pos(w) <= pos(v)

\* the for/break loop over the weekday list, from entry k on: the index of
\* the first listed weekday contained in line_lower, 0 when there is none
RECURSIVE FirstWeekdayFrom(_, _)
FirstWeekdayFrom(line_lower, k) ==
    IF k > Len(Weekdays) THEN 0
    ELSE IF Contains(line_lower, Weekdays[k]) THEN k
    ELSE FirstWeekdayFrom(line_lower, k + 1)

EmojiClass == Lower \cup {"_"}

\* the pattern :([a-z_]+): tried at position i; the greedy run is followed
\* by a character outside its class, so no shorter run can match
MatchEmojiAt(s, i) ==
    LET e == RunEnd(s, i + 1, EmojiClass)
    IN  /\ i <= Len(s)
        /\ s[i] = ":"
        /\ e > i + 1
        /\ e <= Len(s)
        /\ s[e] = ":"

\* re.search(r":([a-z_]+):", line): group 1 of the leftmost match
SearchEmoji(s) ==
    LET hits == {i \in 1..Len(s) : MatchEmojiAt(s, i)}
    IN  IF hits = {}
        THEN [matched |-> FALSE, group1 |-> <<>>]
        ELSE LET i == Min(hits)
             IN  [matched |-> TRUE,
                  group1 |-> SubSeq(s, i + 1, RunEnd(s, i + 1, EmojiClass) - 1)]

\* parse_line_day_emoji: found |-> FALSE stands for None
parse_line_day_emoji(line) ==
    LET k == FirstWeekdayFrom(LowerStr(line), 1)
        emoji_match == SearchEmoji(line)
    IN  IF k = 0 \/ ~emoji_match.matched
        THEN [found |-> FALSE, day_id |-> <<>>, emoji_name |-> <<>>]
        ELSE [found |-> TRUE, day_id |-> Weekdays[k],
              emoji_name |-> emoji_match.group1]

LineBreaks == {"\n", "\r"}

\* str.splitlines() for the line boundaries \n, \r and \r\n
RECURSIVE SplitLines(_)
SplitLines(s) ==
    IF s = <<>> THEN <<>>
    ELSE LET brk == {i \in 1..Len(s) : s[i] \in LineBreaks}
         IN  IF brk = {} THEN <<s>>
             ELSE LET b == Min(brk)
                      n == IF s[b] = "\r" /\ b < Len(s) /\ s[b + 1] = "\n"
                           THEN 2 ELSE 1
                  IN  <<SubSeq(s, 1, b - 1)>>
                          \o SplitLines(SubSeq(s, b + n, Len(s)))

\* A dict is the sequence of its <<key, value>> items in insertion order.
DictKeys(d) == {d[i][1] : i \in 1..Len(d)}

DictGet(d, k) == d[CHOOSE i \in 1..Len(d) : d[i][1] = k][2]

\* mutant of DictSet: an existing key keeps its value
DictSetDefault(d, k, v) ==
    IF k \in DictKeys(d) THEN d ELSE Append(d, <<k, v>>)

\* d[k] = v: an existing key keeps its place and takes the new value
DictSet(d, k, v) ==
    IF k \in DictKeys(d)
    THEN [i \in 1..Len(d) |-> IF d[i][1] = k THEN <<k, v>> ELSE d[i]]
    ELSE Append(d, <<k, v>>)

\* the loop of parse_emoji_from_message over lines[i..], result so far
RECURSIVE ExtractFrom(_, _, _)
ExtractFrom(lines, i, result) ==
    IF i > Len(lines) THEN result
    ELSE LET pair == parse_line_day_emoji(lines[i])
         IN  ExtractFrom(lines, i + 1,
                 IF pair.found
                 THEN DictSet(result, pair.day_id, pair.emoji_name)
                 ELSE result)

parse_emoji_from_message(text) == ExtractFrom(SplitLines(text), 1, <<>>)

-----------------------------------------------------------------------------
(* slacksponder.py: day_to_emoji and select_days                           *)

\* day_to_emoji, in the order the table is written
day_to_emoji ==
    << <<monday, <<"r","e","d","_","c","i","r","c","l","e">>>>,
       <<tuesday, <<"l","a","r","g","e","_","o","r","a","n","g","e","_","c","i","r","c","l","e">>>>,
       <<wednesday, <<"l","a","r","g","e","_","y","e","l","l","o","w","_","c","i","r","c","l","e">>>>,
       <<thursday, <<"l","a","r","g","e","_","g","r","e","e","n","_","c","i","r","c","l","e">>>>,
       <<friday, <<"l","a","r","g","e","_","b","l","u","e","_","c","i","r","c","l","e">>>> >>

\* list(d.values())
DictValues(d) == [i \in 1..Len(d) |-> d[i][2]]

\* list(d.keys())
DictKeyList(d) == [i \in 1..Len(d) |-> d[i][1]]

Whitespace == {" ", "\t", "\n", "\r"}

\* s.strip(chars): leading and trailing characters of the set removed
StripChars(s, chars) ==
    LET keep == {i \in 1..Len(s) : s[i] \notin chars}
    IN  IF keep = {} THEN <<>> ELSE SubSeq(s, Min(keep), Max(keep))

\* s.split(sep) for a one-character separator
RECURSIVE Split(_, _)
Split(s, sep) ==
    LET at == {i \in 1..Len(s) : s[i] = sep}
    IN  IF at = {} THEN <<s>>
        ELSE <<SubSeq(s, 1, Min(at) - 1)>>
                 \o Split(SubSeq(s, Min(at) + 1, Len(s)), sep)

\* str.isdigit() (ASCII digits)
IsDigitStr(s) == Len(s) > 0 /\ \A i \in 1..Len(s) : s[i] \in Digit

DigitValue(c) == (CHOOSE i \in 1..Len(DigitSeq) : DigitSeq[i] = c) - 1

\* int(s) for a string of digits
RECURSIVE ToInt(_)
ToInt(s) ==
    IF Len(s) = 0 THEN 0
    ELSE 10 * ToInt(SubSeq(s, 1, Len(s) - 1)) + DigitValue(s[Len(s)])

AllLit == <<"a","l","l">>

\* the loop of select_days over parts[i..], selected_emojis so far
RECURSIVE SelectFrom(_, _, _)
SelectFrom(parts, i, selected_emojis) ==
    IF i > Len(parts) THEN selected_emojis
    ELSE LET part == StripChars(parts[i], Whitespace)
             n == ToInt(part) - 1
         IN  SelectFrom(parts, i + 1,
                 IF IsDigitStr(part)
                 THEN IF 0 <= n /\ n < Len(day_to_emoji)
                      THEN Append(selected_emojis, day_to_emoji[n + 1][2])
                      ELSE selected_emojis
                 ELSE IF part \in DictKeys(day_to_emoji)
                      THEN Append(selected_emojis, DictGet(day_to_emoji, part))
                      ELSE selected_emojis)

\* select_days() of slacksponder.py, typed being the line input() returns
select_days_input(typed) ==
    LET sel == LowerStr(StripChars(typed, Whitespace))
    IN  IF sel = AllLit THEN DictValues(day_to_emoji)
        ELSE SelectFrom(Split(sel, ","), 1, <<>>)

-----------------------------------------------------------------------------
(* slackspond.py: the reactions dict of main                               *)

\* the loop of the dict comprehension over items[i..]
RECURSIVE BuildFrom(_, _, _, _)
BuildFrom(items, chosen, i, result) ==
    IF i > Len(items) THEN result
    ELSE BuildFrom(items, chosen, i + 1,
             DictSet(result, items[i][2],
                     \E j \in 1..Len(chosen) : chosen[j] = items[i][1]))

\* mutant of BuildReactions: the desired state is inverted
BuildReactions_inverted(legend, chosen) ==
    LET r == BuildFrom(legend, chosen, 1, <<>>)
    IN  [i \in 1..Len(r) |-> <<r[i][1], ~r[i][2]>>]

\* { emoji : day in days for day, emoji in day_emoji_map.items() }
BuildReactions(legend, chosen) == BuildFrom(legend, chosen, 1, <<>>)

\* the sublists of a list, each in the list's order
RECURSIVE SubLists(_)
SubLists(l) ==
    IF Len(l) = 0 THEN {<<>>}
    ELSE LET rest == SubLists(Tail(l))
         IN  rest \cup {<<Head(l)>> \o r : r \in rest}

-----------------------------------------------------------------------------
(* Harness for parse_slack_url: the link is                                *)
(*   prefix + "/archives/" + id + "/p" + digits + suffix                   *)

MaxDigits == 8

MaxIdLen == 2

\* digit strings of every length up to MaxDigits, three of each length
DigitStrings ==
    {[i \in 1..n |-> DigitSeq[((i * k) % 10) + 1]] :
        n \in 1..MaxDigits, k \in {0, 1, 3}}

ChannelIds == UNION {[1..n -> {"C","0"}] : n \in 1..MaxIdLen}

Prefixes ==
    { <<>>,
      <<"h","t","t","p","s",":","/","/","x",".","s","l","a","c","k",".","c","o","m">>,
      <<"/","a","r","c","h","i","v","e","s","/","B","/","p","5","?">>,
      <<"/","a","r","c","h","i","v","e","s","/","B","/","p">>,
      <<"Z","9">> }

Suffixes ==
    { <<>>,
      <<"9">>,
      <<"?","t","=","1">>,
      <<"/","p","1">>,
      <<"a","9">> }

Embed(a) == a.prefix \o ArchivesLit \o a.id \o SlashP \o a.digits \o a.suffix

UrlArgs == [prefix : Prefixes, id : ChannelIds, digits : DigitStrings,
            suffix : Suffixes]

NotRun == [done |-> FALSE, raised |-> FALSE, channel_id |-> <<>>,
           timestamp |-> <<>>]

IdleMain ==
    /\ script = "none"
    /\ pc = "idle"
    /\ token = FALSE
    /\ link = <<>>
    /\ channel = <<>>
    /\ timestamp = <<>>
    /\ message_text = <<>>
    /\ day_emoji_map = <<>>
    /\ selection = <<>>
    /\ days = [none |-> FALSE, list |-> <<>>]
    /\ reactions = <<>>
    /\ idx = 0
    /\ calls = <<>>
    /\ failed = 0
    /\ exit_code = -1
    /\ prompted = "no"
    /\ uncaught = ""

InitUrl ==
    /\ IdleMain
    /\ arg \in UrlArgs
    /\ ret = NotRun

CallParseSlackUrl ==
    /\ ~ret.done
    /\ LET r == parse_slack_url(Embed(arg))
       IN  ret' = [done |-> TRUE, raised |-> r.raised,
                   channel_id |-> r.channel_id, timestamp |-> r.timestamp]
    /\ UNCHANGED <<arg, mainVars>>

NextUrl == CallParseSlackUrl

SpecUrl == InitUrl /\ [][NextUrl]_vars

\* the characters of ts after its first "."
Fraction(ts) ==
    LET dots == {i \in 1..Len(ts) : ts[i] = "."}
    IN  IF dots = {} THEN <<>> ELSE SubSeq(ts, Min(dots) + 1, Len(ts))

\* d with a "." inserted 6 characters from the end
DotSixFromEnd(d) ==
    [i \in 1..(Len(d) + 1) |->
        IF i < Len(d) - 5 THEN d[i]
        ELSE IF i = Len(d) - 5 THEN "." ELSE d[i - 1]]

StartsWithDigit(s) == Len(s) > 0 /\ s[1] \in Digit

Recovered ==
    /\ ~ret.raised
    /\ ret.channel_id = arg.id
    /\ ret.timestamp = DotSixFromEnd(arg.digits)

\* C3 (as stated): for every id in [A-Z0-9]+, every digit string of length
\* >= 7 and every prefix and suffix, parse_slack_url returns exactly the id
\* and the digits with "." inserted 6 from the end.
C3_AnySurrounding ==
    (ret.done /\ Len(arg.digits) >= 7) => Recovered

\* C3 (amended): the same, for every prefix that itself holds no match of
\* the pattern and every suffix that does not begin with a digit.
C3_CleanSurrounding ==
    (/\ ret.done
     /\ Len(arg.digits) >= 7
     /\ ~SearchArchives(arg.prefix).matched
     /\ ~StartsWithDigit(arg.suffix)) => Recovered

C3_Witness ==
    /\ ret.done
    /\ Len(arg.digits) = 7
    /\ arg.prefix # <<>>
    /\ arg.suffix # <<>>
    /\ ~SearchArchives(arg.prefix).matched
    /\ ~StartsWithDigit(arg.suffix)
    /\ Recovered

\* C4: every returned timestamp has exactly 6 digits after the "."; a link
\* whose captured digit string has fewer than 6 digits raises instead of
\* returning.
C4_SixDigitFraction ==
    ret.done =>
        /\ ~ret.raised => Len(Fraction(ret.timestamp)) = 6
        /\ Len(SearchArchives(Embed(arg)).group2) < 6 => ret.raised

-----------------------------------------------------------------------------
(* Harness for parse_emoji_from_message: the text is up to MaxLines        *)
(* fragments joined by "\n"                                                *)

MaxLines == 3

Fragments ==
    { <<"M","o","n","d","a","y",":"," ",":","a","_","b",":">>,
      <<"m","o","n","d","a","y"," ",":","c",":">>,
      <<"f","r","i","d","a","y"," ","t","u","e","s","d","a","y"," ",":","d",":">>,
      <<":","e",":"," ","T","U","E","S","D","A","Y"," ",":","f",":">>,
      <<"m","o","n","d","a","y","f","u","n","d","a","y">>,
      <<"h","i"," ",":","g",":">>,
      <<"t","u","e","s","d","a","y"," ",":","X",":"," ",":",":"," ",":","h",":","i",":">>,
      <<"f","r","i","d","a","y"," ",":","k",":","\r","\n","F","r","i","d","a","y"," ",":","m",":","\r","x">> }

RECURSIVE JoinLines(_)
JoinLines(fs) ==
    IF Len(fs) = 0 THEN <<>>
    ELSE IF Len(fs) = 1 THEN fs[1]
    ELSE fs[1] \o <<"\n">> \o JoinLines(Tail(fs))

Texts == {JoinLines(fs) : fs \in UNION {[1..n -> Fragments] : n \in 0..MaxLines}}

InitLegend ==
    /\ IdleMain
    /\ arg \in Texts
    /\ ret = [done |-> FALSE, legend |-> <<>>]

CallParseEmojiFromMessage ==
    /\ ~ret.done
    /\ ret' = [done |-> TRUE, legend |-> parse_emoji_from_message(arg)]
    /\ UNCHANGED <<arg, mainVars>>

NextLegend == CallParseEmojiFromMessage

SpecLegend == InitLegend /\ [][NextLegend]_vars

\* the weekday names that occur in the line, case-insensitively
NamedIn(line) ==
    {k \in 1..Len(Weekdays) : Contains(LowerStr(line), Weekdays[k])}

HasToken(line) == \E i \in 1..Len(line) : MatchEmojiAt(line, i)

\* the first emoji token of the line
TokenOf(line) == SearchEmoji(line).group1

\* the line counts for weekday k: it names k, before any other weekday of
\* the fixed order, and carries an emoji token
CountsFor(line, k) ==
    NamedIn(line) # {} /\ Min(NamedIn(line)) = k /\ HasToken(line)

LinesOf(text) == SplitLines(text)

\* C7: when several lines name the same weekday with different emoji
\* tokens, the legend maps that weekday to the token of the last such line.
C7_LastLineWins ==
    ret.done =>
        \A k \in 1..Len(Weekdays) :
            LET lines == LinesOf(arg)
                such == {i \in 1..Len(lines) : CountsFor(lines[i], k)}
            IN  such # {} =>
                  /\ Weekdays[k] \in DictKeys(ret.legend)
                  /\ DictGet(ret.legend, Weekdays[k]) = TokenOf(lines[Max(such)])

C7_Witness ==
    /\ ret.done
    /\ \E k \in 1..Len(Weekdays) :
         LET lines == LinesOf(arg)
             such == {i \in 1..Len(lines) : CountsFor(lines[i], k)}
         IN  /\ Cardinality(such) >= 2
             /\ TokenOf(lines[Min(such)]) # TokenOf(lines[Max(such)])
             /\ DictGet(ret.legend, Weekdays[k]) = TokenOf(lines[Max(such)])

\* C9: a line holding more than one weekday name and an emoji token is
\* read as the weekday that comes first in the order monday..friday,
\* wherever the names stand in the line, and adds an entry for that weekday
\* only: every key of the legend is the first-in-order weekday of some line
\* with a token.
C9_PriorityOrderWins ==
    ret.done =>
        LET lines == LinesOf(arg)
        IN  /\ \A i \in 1..Len(lines) :
                 (Cardinality(NamedIn(lines[i])) > 1 /\ HasToken(lines[i]))
                    => Weekdays[Min(NamedIn(lines[i]))] \in DictKeys(ret.legend)
            /\ \A key \in DictKeys(ret.legend) :
                 \E i \in 1..Len(lines), k \in 1..Len(Weekdays) :
                    /\ CountsFor(lines[i], k)
                    /\ Weekdays[k] = key

\* a single line naming friday before tuesday yields the tuesday entry alone
C9_Witness ==
    /\ ret.done
    /\ LET lines == LinesOf(arg)
       IN  /\ Len(lines) = 1
           /\ NamedIn(lines[1]) = {2, 5}
           /\ Min({i \in 1..Len(lines[1]) :
                      StartsWithAt(LowerStr(lines[1]), i, friday)})
                < Min({i \in 1..Len(lines[1]) :
                      StartsWithAt(LowerStr(lines[1]), i, tuesday)})
           /\ HasToken(lines[1])
           /\ DictKeys(ret.legend) = {tuesday}

-----------------------------------------------------------------------------
(* main() of both scripts                                                  *)

MaxParts == 6

Links ==
    { <<"h","t","t","p","s",":","/","/","x","/","a","r","c","h","i","v","e","s","/","C","0","1","2","3","A","B","C","D","E","/","p","1","7","0","0","0","0","0","0","0","0","1","2","3","4","5","6">>,
      <<"/","a","r","c","h","i","v","e","s","/","C","1","/","p","1","2","3","?","x">>,
      <<"h","t","t","p","s",":","/","/","x","/","a","r","c","h","i","v","e","/","C","1","/","p","1","7">> }

MessageTexts ==
    { <<"M","o","n","d","a","y",":"," ",":","r","e","d","_","c","i","r","c","l","e",":","\n","f","r","i","d","a","y"," ","-",">"," ",":","l","a","r","g","e","_","b","l","u","e","_","c","i","r","c","l","e",":">>,
      <<"m","o","n","d","a","y"," ",":","o","k",":","\n","t","u","e","s","d","a","y"," ",":","o","k",":">>,
      <<"m","o","n","d","a","y"," ",":","x",":","\n","M","o","n","d","a","y"," ",":","y",":","\r","\n","w","e","d","n","e","s","d","a","y"," ",":","z",":","\n","t","h","u"," ",":","q",":","\n","t","h","u","r","s","d","a","y",":"," ",":","w",":">>,
      <<"m","o","n","d","a","y","f","u","n","d","a","y">> }

\* comma-separated answers of up to MaxParts parts, and a few whole answers
TypedParts == { <<"1">>, <<" ","F","r","i","d","a","y">> }

RECURSIVE JoinParts(_)
JoinParts(ps) ==
    IF Len(ps) = 0 THEN <<>>
    ELSE IF Len(ps) = 1 THEN ps[1]
    ELSE ps[1] \o <<",">> \o JoinParts(Tail(ps))

TypedAnswers ==
    {JoinParts(ps) : ps \in UNION {[1..n -> TypedParts] : n \in 1..MaxParts}}
      \cup { <<>>, <<"a","l","l">>, <<" ","A","L","L"," ">>, <<"x">>,
             <<"0",",","6">>, <<"0","3",",",",","t","u","e","s","d","a","y">> }

\* what one reactions_add / reactions_remove call can do: return, raise
\* SlackApiError with one of three error codes, or raise an exception that
\* is not a SlackApiError (a connection error, a timeout)
WriteOutcomes ==
    {"ok", "already_reacted", "no_reaction", "invalid_name", "raise_other"}

Init ==
    /\ script \in {"slackspond", "slacksponder"}
    /\ pc = "start"
    /\ token \in BOOLEAN
    /\ link \in Links
    /\ channel = <<>>
    /\ timestamp = <<>>
    /\ message_text = <<>>
    /\ day_emoji_map = <<>>
    /\ selection = <<>>
    /\ days = [none |-> FALSE, list |-> <<>>]
    /\ reactions = <<>>
    /\ idx = 0
    /\ calls = <<>>
    /\ failed = 0
    /\ exit_code = -1
    /\ prompted = "no"
    /\ uncaught = ""
    /\ arg = <<>>
    /\ ret = NotRun

\* sys.exit(code)
Exit(code) ==
    /\ pc' = "exited"
    /\ exit_code' = code

\* an exception nobody catches: traceback, exit status 1
Uncaught(exc) ==
    /\ pc' = "exited"
    /\ exit_code' = 1
    /\ uncaught' = exc

\* main up to the first external call: the credential check and the link
MainStart ==
    /\ pc = "start"
    /\ IF ~token
       THEN /\ Exit(1)
            /\ UNCHANGED <<channel, timestamp>>
       ELSE LET r == parse_slack_url(link)
            IN  IF r.raised
                THEN /\ Exit(1)
                     /\ UNCHANGED <<channel, timestamp>>
                ELSE /\ channel' = r.channel_id
                     /\ timestamp' = r.timestamp
                     /\ pc' = IF script = "slackspond" THEN "fetch" ELSE "prompt"
                     /\ UNCHANGED exit_code
    /\ UNCHANGED <<script, token, link, message_text, day_emoji_map, selection,
                   days, reactions, idx, calls, failed, prompted, uncaught,
                   arg, ret>>

\* slackspond.py: fetch_message raises SlackApiError or ValueError
FetchFails ==
    /\ pc = "fetch"
    /\ Exit(1)
    /\ UNCHANGED <<script, token, link, channel, timestamp, message_text,
                   day_emoji_map, selection, days, reactions, idx, calls,
                   failed, prompted, uncaught, arg, ret>>

\* slackspond.py: fetch_message returns the text; the legend is extracted
FetchReturns ==
    /\ pc = "fetch"
    /\ \E text \in MessageTexts :
         /\ message_text' = text
         /\ day_emoji_map' = parse_emoji_from_message(text)
         /\ IF parse_emoji_from_message(text) = <<>>
            THEN Exit(1)
            ELSE pc' = "prompt" /\ UNCHANGED exit_code
    /\ UNCHANGED <<script, token, link, channel, timestamp, selection, days,
                   reactions, idx, calls, failed, prompted, uncaught, arg, ret>>

\* slackspond.py: the checkbox is confirmed with some of the days ticked
CheckboxAnswered ==
    /\ pc = "prompt"
    /\ script = "slackspond"
    /\ \E ticked \in SubLists(DictKeyList(day_emoji_map)) :
         /\ days' = [none |-> FALSE, list |-> ticked]
         /\ reactions' = BuildReactions(day_emoji_map, ticked)
    /\ prompted' = "answered"
    /\ pc' = "submit"
    /\ UNCHANGED <<script, token, link, channel, timestamp, message_text,
                   day_emoji_map, selection, idx, calls, failed, exit_code,
                   uncaught, arg, ret>>

\* slackspond.py: the checkbox is cancelled, ask() returns None, and
\* `day in days` raises TypeError on the first item of the legend
CheckboxCancelled ==
    /\ pc = "prompt"
    /\ script = "slackspond"
    /\ days' = [none |-> TRUE, list |-> <<>>]
    /\ prompted' = "aborted"
    /\ Uncaught("TypeError")
    /\ UNCHANGED <<script, token, link, channel, timestamp, message_text,
                   day_emoji_map, selection, reactions, idx, calls, failed,
                   arg, ret>>

\* slacksponder.py: input() returns a line; nothing selected exits with 0
InputAnswered ==
    /\ pc = "prompt"
    /\ script = "slacksponder"
    /\ \E typed \in TypedAnswers :
         /\ selection' = typed
         /\ reactions' = select_days_input(typed)
         /\ IF select_days_input(typed) = <<>>
            THEN Exit(0)
            ELSE pc' = "submit" /\ UNCHANGED exit_code
    /\ prompted' = "answered"
    /\ UNCHANGED <<script, token, link, channel, timestamp, message_text,
                   day_emoji_map, days, idx, calls, failed, uncaught, arg, ret>>

\* slacksponder.py: input() raises EOFError or KeyboardInterrupt
InputAborted ==
    /\ pc = "prompt"
    /\ script = "slacksponder"
    /\ prompted' = "aborted"
    /\ \E exc \in {"EOFError", "KeyboardInterrupt"} : Uncaught(exc)
    /\ UNCHANGED <<script, token, link, channel, timestamp, message_text,
                   day_emoji_map, selection, days, reactions, idx, calls,
                   failed, arg, ret>>

\* the name and direction of request number i of the batch
RequestName(i) ==
    StripChars(IF script = "slackspond" THEN reactions[i][1] ELSE reactions[i],
               {":"})

RequestOp(i) ==
    IF script = "slackspond" /\ ~reactions[i][2] THEN "remove" ELSE "add"

\* the error codes the except clause reports as already in state
Benign == IF script = "slackspond"
          THEN {"already_reacted", "no_reaction"}
          ELSE {"already_reacted"}

\* one iteration of the loop of submit_reactions
SubmitOne ==
    /\ pc = "submit"
    /\ idx < Len(reactions)
    /\ idx' = idx + 1
    /\ calls' = Append(calls, [op |-> RequestOp(idx + 1),
                               name |-> RequestName(idx + 1)])
    /\ \E outcome \in WriteOutcomes :
         IF outcome = "raise_other"
         THEN /\ Uncaught("Exception")
              /\ UNCHANGED failed
         ELSE /\ failed' = IF outcome \in Benign \cup {"ok"}
                           THEN failed ELSE failed + 1
              /\ UNCHANGED <<pc, exit_code, uncaught>>
    /\ UNCHANGED <<script, token, link, channel, timestamp, message_text,
                   day_emoji_map, selection, days, reactions, prompted,
                   arg, ret>>

\* the loop is over: submit_reactions and main return
SubmitReturns ==
    /\ pc = "submit"
    /\ idx = Len(reactions)
    /\ Exit(0)
    /\ UNCHANGED <<script, token, link, channel, timestamp, message_text,
                   day_emoji_map, selection, days, reactions, idx, calls,
                   failed, prompted, uncaught, arg, ret>>

Next ==
    \/ MainStart
    \/ FetchFails
    \/ FetchReturns
    \/ CheckboxAnswered
    \/ CheckboxCancelled
    \/ InputAnswered
    \/ InputAborted
    \/ SubmitOne
    \/ SubmitReturns

Spec == Init /\ [][Next]_vars

-----------------------------------------------------------------------------
(* Properties of main and submit_reactions                                 *)

InList(x, l) == \E i \in 1..Len(l) : l[i] = x

\* the prompt returned a selection with no day in it
NoDayChosen ==
    /\ prompted = "answered"
    /\ IF script = "slackspond" THEN days.list = <<>> ELSE reactions = <<>>

\* C1: submit_reactions attempts every request of the batch exactly once,
\* in input order, whatever each write call returns or raises: when main
\* has ended after the prompt was answered, the calls made are the batch.
C1_EveryRequestAttempted ==
    (pc = "exited" /\ prompted = "answered") =>
        /\ Len(calls) = Len(reactions)
        /\ \A i \in 1..Len(calls) :
             calls[i] = [op |-> RequestOp(i), name |-> RequestName(i)]

C5_CancelIsCleanExit ==
    (script = "slackspond" /\ prompted = "aborted") =>
        /\ pc = "exited"
        /\ exit_code = 0
        /\ uncaught = ""
        /\ calls = <<>>

\* C6: once reaction submission has started, the process exits with status
\* 0 whatever each add/remove call does; no uncaught error ends the run.
C6_ExitZeroAfterSubmission ==
    (pc = "exited" /\ prompted = "answered") =>
        (exit_code = 0 /\ uncaught = "")

\* C8: whatever is entered at the prompt, at most 5 write calls are made,
\* one per weekday.
C8_AtMostFiveCalls == Len(calls) <= Len(Weekdays)

\* C10: in slackspond.py, the call made for a day's emoji is an add when
\* the day was ticked and a remove when it was not, also when two days of
\* the legend carry the same emoji.
C10_CallMatchesChoice ==
    script = "slackspond" =>
        \A j \in 1..Len(calls), i \in 1..Len(day_emoji_map) :
            day_emoji_map[i][2] = calls[j].name =>
                (calls[j].op = "add" <=> InList(day_emoji_map[i][1], days.list))

=============================================================================
